---- MODULE Spec2Model ----
(***************************************************************************)
(* A model of osgbuild/utils.py: the subprocess helpers (checked_call,     *)
(* unchecked_call, checked_pipeline, unchecked_pipeline, checked_backtick, *)
(* backtick, sbacktick), byte decoding (maybe_to_str), get_screen_columns  *)
(* and the working-directory helpers (pushd, popd, chdir).                 *)
(*                                                                         *)
(* Python values are represented as follows.  None is the record           *)
(* [none |-> TRUE] and a present value x is Some(x) = [some |-> x].  Text and *)
(* bytes are sequences of integers (code points / byte values).  A file    *)
(* handle is a record [kind, id].  Keyword dictionaries are functions      *)
(* from a set of keys.                                                     *)
(***************************************************************************)
EXTENDS Integers, Sequences, FiniteSets, TLC

VARIABLES
    entry,      \* which function of utils.py the caller invoked
    pc,         \* position of the calling thread inside that function
    outcome,    \* how the call ended: a return value or a raised exception
    cmds,       \* unchecked_pipeline / checked_pipeline: the cmds argument
    stdin,      \* the stdin keyword of the call
    stdout,     \* the stdout keyword of the call
    kw,         \* the remaining keywords (**kw)
    pipes,      \* unchecked_pipeline: the local list of Popen objects
    rets,       \* unchecked_pipeline: the exit statuses collected by wait()
    exited,     \* the child processes (by position), in the order they terminated
    kwargs,     \* checked_backtick / backtick / sbacktick: the **kwargs of the call
    child,      \* what the spawned command does: whether it can be run, its output, its status
    heap,       \* the dictionaries alive in the process, by name (os.environ, the caller's env, ...)
    frame,      \* checked_backtick: its locals once it has run (sp_kwargs, nostrip, output)
    cwd,        \* the working directory of the process
    dir_stack,  \* the module's __dir_stack
    scopes      \* the olddir of every chdir() block that is entered and not yet left

pipeState == <<cmds, stdin, stdout, kw, pipes, rets, exited>>
captureState == <<kwargs, child, heap, frame>>
dirState == <<cwd, dir_stack, scopes>>
vars == <<entry, pc, outcome, pipeState, captureState, dirState>>

----------------------------------------------------------------------------
(* Bounds *)
MaxCmds == 3        \* longest pipeline
MaxStatus == 2      \* exit statuses range over 0..MaxStatus

----------------------------------------------------------------------------
(* Python values *)
None == [none |-> TRUE]
Some(x) == [some |-> x]

NoneH == [kind |-> "None", id |-> 0]            \* no redirection
PIPE == [kind |-> "PIPE", id |-> 0]             \* subprocess.PIPE
FileH(n) == [kind |-> "file", id |-> n]         \* a caller's open file
PipeRead(i) == [kind |-> "pipe", id |-> i]      \* parent's read end of child i's stdout pipe

NoOutcome == [kind |-> "none", exc |-> "", value |-> None,
              process |-> None, returncode |-> None, output |-> None]
Return(v) == [NoOutcome EXCEPT !.kind = "return", !.value = v]
Raise(e) == [NoOutcome EXCEPT !.kind = "raise", !.exc = e]

\* CalledProcessError.__init__
CalledProcessError(process, returncode, output) ==
    [kind |-> "raise", exc |-> "CalledProcessError", value |-> None,
     process |-> Some(process), returncode |-> Some(returncode), output |-> output]

ExitStatuses == 0..MaxStatus
Cmd(s) == [exit |-> s]       \* a command characterised by the status it exits with
Commands == {Cmd(s) : s \in ExitStatuses}
KwChoices == {{}, {<<"cwd", "/w">>}}
StdinChoices == {NoneH, FileH(1)}
StdoutChoices == {NoneH, FileH(2)}

Range(f) == {f[x] : x \in DOMAIN f}

----------------------------------------------------------------------------
(* subprocess.Popen: the object the parent holds for child number idx     *)
(* (0-based).  stdout is the parent's handle: the read end of a new pipe   *)
(* when stdout=PIPE was asked for, None otherwise.                         *)
Popen(cmd, in, out, kwd, idx) ==
    [cmd |-> cmd, stdin |-> in, stdout_arg |-> out, kw |-> kwd,
     stdout |-> IF out = PIPE THEN PipeRead(idx) ELSE NoneH,
     returncode |-> None]

\* a slip that gives every command the caller's stdin
StdinAlwaysCaller(i) == stdin

\* _stdin = stdin if i == 0 else pipes[-1].stdout
StdinFor(i) == IF i = 0 THEN stdin ELSE pipes[Len(pipes)].stdout

\* _stdout = stdout if i == final else subprocess.PIPE
StdoutFor(i, final) == IF i = final THEN stdout ELSE PIPE

\* pipes[-2].stdout.close(); pipes[-2].stdout = None
CloseUpstream(ps) == [ps EXCEPT ![Len(ps) - 1].stdout = NoneH]

\* list(filter(None, rets))[0] if any(rets) else 0
RECURSIVE FilterNonzero(_)
FilterNonzero(rs) ==
    IF rs = <<>> THEN <<>>
    ELSE IF Head(rs) # 0 THEN <<Head(rs)>> \o FilterNonzero(Tail(rs))
    ELSE FilterNonzero(Tail(rs))

AnyNonzero(rs) == \E k \in 1..Len(rs) : rs[k] # 0

\* a slip that takes the last failure instead of the first
PipelineStatusLast(rs) == IF AnyNonzero(rs) THEN FilterNonzero(rs)[Len(FilterNonzero(rs))] ELSE 0

PipelineStatus(rs) == IF AnyNonzero(rs) THEN FilterNonzero(rs)[1] ELSE 0

\* a slip that drops the failure
CheckedPipelineSwallows(err) == Return(None)

\* checked_pipeline: err = unchecked_pipeline(...); if err: raise ...
CheckedPipelineOutcome(err) ==
    IF err # 0 THEN CalledProcessError(<<cmds, kw>>, err, None) ELSE Return(None)

\* checked_call: err = unchecked_call(...); if err: raise ...
CheckedCallOutcome(err) ==
    IF err # 0
    THEN CalledProcessError(<<<<cmds[1]>>, [stdin |-> stdin, stdout |-> stdout, kw |-> kw]>>,
                            err, None)
    ELSE Return(None)

PipelineEntries == {"unchecked_pipeline", "checked_pipeline"}
CallEntries == {"unchecked_call", "checked_call"}

----------------------------------------------------------------------------
(* Pipelines and single calls, one step of the calling thread at a time,   *)
(* interleaved with the termination of the children.                       *)

\* the parts of the state a pipeline or a plain call does not touch
IdleCapture ==
    /\ kwargs = <<>>
    /\ child = [runs |-> TRUE, out |-> <<>>, status |-> 0]
    /\ heap = [o \in {"os.environ"} |-> <<>>]
    /\ frame = None

IdleDirs ==
    /\ cwd = "/"
    /\ dir_stack = <<>>
    /\ scopes = <<>>

IdlePipeline ==
    /\ cmds = <<>>
    /\ stdin = NoneH
    /\ stdout = NoneH
    /\ kw = {}
    /\ pipes = <<>>
    /\ rets = <<>>
    /\ exited = <<>>

InitPipeline ==
    /\ entry \in PipelineEntries \cup CallEntries
    /\ cmds \in UNION {[1..n -> Commands] : n \in 1..MaxCmds}
    /\ entry \in CallEntries => Len(cmds) = 1
    /\ stdin \in StdinChoices
    /\ stdout \in StdoutChoices
    /\ kw \in KwChoices
    /\ pipes = <<>>
    /\ rets = <<>>
    /\ exited = <<>>
    /\ pc = "loop"
    /\ outcome = NoOutcome
    /\ IdleCapture
    /\ IdleDirs

\* One iteration of the for loop of unchecked_pipeline: spawn command i and
\* close the parent's handle on the previous command's output.
SpawnNext ==
    /\ entry \in PipelineEntries
    /\ pc = "loop"
    /\ Len(pipes) < Len(cmds)
    /\ LET i == Len(pipes)
           final == Len(cmds) - 1
           appended == Append(pipes, Popen(cmds[i + 1], StdinFor(i), StdoutFor(i, final), kw, i))
       IN /\ pipes' = IF i > 0 THEN CloseUpstream(appended) ELSE appended
          /\ pc' = IF i = final THEN "wait" ELSE "loop"
    /\ UNCHANGED <<entry, outcome, cmds, stdin, stdout, kw, rets, exited>>
    /\ UNCHANGED <<captureState, dirState>>

\* subprocess.Popen raises OSError (the program cannot be executed): the
\* exception leaves unchecked_pipeline from inside the loop.
SpawnFails ==
    /\ entry \in PipelineEntries
    /\ pc = "loop"
    /\ Len(pipes) < Len(cmds)
    /\ pc' = "raised"
    /\ outcome' = Raise("OSError")
    /\ UNCHANGED <<entry, cmds, stdin, stdout, kw, pipes, rets, exited>>
    /\ UNCHANGED <<captureState, dirState>>

\* A running child terminates; children terminate in any order.
Terminate ==
    /\ \E k \in 1..Len(pipes) :
        /\ k \notin Range(exited)
        /\ exited' = Append(exited, k)
    /\ UNCHANGED <<entry, pc, outcome, cmds, stdin, stdout, kw, pipes, rets>>
    /\ UNCHANGED <<captureState, dirState>>

\* rets = [p.wait() for p in pipes], one wait at a time; after the last one
\* the status is computed and the function returns (or, checked, raises).
WaitNext ==
    /\ entry \in PipelineEntries
    /\ pc = "wait"
    /\ LET k == Len(rets) + 1
           err == PipelineStatus(rets')
       IN /\ k \in Range(exited)
          /\ rets' = Append(rets, pipes[k].cmd.exit)
          /\ pipes' = [pipes EXCEPT ![k].returncode = Some(pipes[k].cmd.exit)]
          /\ IF k = Len(pipes)
             THEN /\ pc' = "done"
                  /\ outcome' = IF entry = "checked_pipeline"
                                THEN CheckedPipelineOutcome(err)
                                ELSE Return(Some(err))
             ELSE UNCHANGED <<pc, outcome>>
    /\ UNCHANGED <<entry, cmds, stdin, stdout, kw, exited>>
    /\ UNCHANGED <<captureState, dirState>>

\* unchecked_call: subprocess.call(*args, **kwargs) starts the child ...
CallSpawn ==
    /\ entry \in CallEntries
    /\ pc = "loop"
    /\ pipes' = <<Popen(cmds[1], stdin, stdout, kw, 0)>>
    /\ pc' = "wait"
    /\ UNCHANGED <<entry, outcome, cmds, stdin, stdout, kw, rets, exited>>
    /\ UNCHANGED <<captureState, dirState>>

CallSpawnFails ==
    /\ entry \in CallEntries
    /\ pc = "loop"
    /\ pc' = "raised"
    /\ outcome' = Raise("OSError")
    /\ UNCHANGED <<entry, cmds, stdin, stdout, kw, pipes, rets, exited>>
    /\ UNCHANGED <<captureState, dirState>>

\* ... and waits for it; checked_call raises on a nonzero status.
CallWait ==
    /\ entry \in CallEntries
    /\ pc = "wait"
    /\ 1 \in Range(exited)
    /\ LET err == pipes[1].cmd.exit
       IN /\ rets' = <<err>>
          /\ pipes' = [pipes EXCEPT ![1].returncode = Some(err)]
          /\ outcome' = IF entry = "checked_call" THEN CheckedCallOutcome(err)
                        ELSE Return(Some(err))
    /\ pc' = "done"
    /\ UNCHANGED <<entry, cmds, stdin, stdout, kw, exited>>
    /\ UNCHANGED <<captureState, dirState>>

NextPipeline ==
    \/ SpawnNext
    \/ SpawnFails
    \/ Terminate
    \/ WaitNext
    \/ CallSpawn
    \/ CallSpawnFails
    \/ CallWait

SpecPipeline == InitPipeline /\ [][NextPipeline]_vars

----------------------------------------------------------------------------
(* Properties of the pipeline and call executors *)

AllSpawned == Len(pipes) = Len(cmds)
ExitOf(k) == cmds[k].exit
NonzeroIdx == {k \in 1..Len(cmds) : ExitOf(k) # 0}
LowestNonzero == CHOOSE k \in NonzeroIdx : \A j \in NonzeroIdx : k <= j
\* the status of a pipeline, by list index
ExpectedStatus == IF NonzeroIdx = {} THEN 0 ELSE ExitOf(LowestNonzero)

\* C1: unchecked_pipeline returns only after all N children have terminated,
\* and it returns 0 if every command exited 0 and otherwise the exit status of
\* the lowest-index command whose status is nonzero, whatever the order in
\* which the children terminated.
C1_PipelineStatus ==
    (entry = "unchecked_pipeline" /\ pc = "done") =>
        /\ Range(exited) = 1..Len(cmds)
        /\ rets = [k \in 1..Len(cmds) |-> ExitOf(k)]
        /\ outcome = Return(Some(ExpectedStatus))

\* a three-command pipeline whose children terminated last to first and whose
\* second and third commands failed with different statuses
C1_Witness ==
    /\ entry = "unchecked_pipeline" /\ pc = "done"
    /\ Len(cmds) = 3
    /\ ExitOf(1) = 0 /\ ExitOf(2) = 2 /\ ExitOf(3) = 1
    /\ exited = <<3, 2, 1>>
    /\ outcome.value = Some(2)

\* C2: checked_call and checked_pipeline return normally (None) if and only
\* if the status of the command (the aggregate status of the pipeline) is 0;
\* for a status N # 0 they raise CalledProcessError with returncode N, output
\* None and a process field that carries the command specification passed in.
C2_CheckedNeverSwallows ==
    (entry \in {"checked_call", "checked_pipeline"} /\ pc = "done") =>
        LET err == IF entry = "checked_call" THEN ExitOf(1) ELSE ExpectedStatus
            spec == IF entry = "checked_call" THEN <<cmds[1]>> ELSE cmds
        IN /\ (outcome.kind = "return") <=> (err = 0)
           /\ err = 0 => outcome = Return(None)
           /\ err # 0 =>
                /\ outcome.kind = "raise"
                /\ outcome.exc = "CalledProcessError"
                /\ outcome.returncode = Some(err)
                /\ outcome.output = None
                /\ outcome.process # None
                /\ outcome.process.some[1] = spec

C2_Witness ==
    /\ entry = "checked_pipeline" /\ pc = "done"
    /\ Len(cmds) = 2 /\ ExitOf(1) = 0 /\ ExitOf(2) = 2
    /\ outcome.exc = "CalledProcessError"
    /\ outcome.returncode = Some(2)

\* C5: commands are spawned in list order; command i reads the caller's stdin
\* when it is the first and otherwise the read end of command i-1's output
\* pipe; it writes to the caller's stdout when it is the last and otherwise to
\* a new pipe; the other keywords go to every command.  A pipeline of one
\* command is wired, and returns, exactly as unchecked_call does.
C5_Wiring ==
    /\ entry \in PipelineEntries =>
        \A k \in 1..Len(pipes) :
            /\ pipes[k].cmd = cmds[k]
            /\ pipes[k].stdin = IF k = 1 THEN stdin ELSE PipeRead(k - 2)
            /\ pipes[k].stdout_arg = IF k = Len(cmds) THEN stdout ELSE PIPE
            /\ pipes[k].kw = kw
    /\ (entry \in {"unchecked_pipeline", "unchecked_call"} /\ Len(cmds) = 1) =>
        /\ Len(pipes) = 1 =>
            /\ pipes[1].cmd = cmds[1]
            /\ pipes[1].stdin = stdin
            /\ pipes[1].stdout_arg = stdout
            /\ pipes[1].stdout = NoneH
            /\ pipes[1].kw = kw
        /\ pc = "done" => outcome = Return(Some(ExitOf(1)))

C5_Witness ==
    /\ entry = "unchecked_pipeline"
    /\ Len(cmds) = 3 /\ AllSpawned
    /\ stdin = FileH(1) /\ stdout = FileH(2) /\ kw # {}
    /\ pipes[2].stdin = PipeRead(0) /\ pipes[3].stdin = PipeRead(1)
    /\ pipes[3].stdout_arg = FileH(2)

\* the inter-command pipes of which the parent still holds a handle
ParentPipeHandles == {k \in 1..Len(pipes) : pipes[k].stdout.kind = "pipe"}

\* C6: the parent never holds more than one inter-command pipe handle, holds
\* none when it starts waiting, and holds none on any path by which
\* unchecked_pipeline exits, a failure to spawn a later command included.
C6_PipesLeakFree ==
    entry \in PipelineEntries =>
        /\ Cardinality(ParentPipeHandles) <= 1
        /\ pc \in {"wait", "done", "raised"} => ParentPipeHandles = {}

\* what does hold: no handle is left once every command has been spawned
C6_NoHandleAfterLoop ==
    (entry \in PipelineEntries /\ pc \in {"wait", "done"}) => ParentPipeHandles = {}

----------------------------------------------------------------------------
(* Text: bytes and characters are integers, strings are sequences of them *)

MaxLen == 2                 \* longest captured output in the byte family

\* the bytes a captured output is made of: space, newline, "A", backslash,
\* NEL (0x85), no-break space (0xA0) and 0xFF
ByteChoices == {32, 10, 65, 92, 133, 160, 255}
ByteSeqs == UNION {[1..n -> ByteChoices] : n \in 0..MaxLen}

Backslash == 92
LowerX == 120
\* one lower-case hexadecimal digit, as a character
HexDigit(n) == IF n < 10 THEN 48 + n ELSE 87 + n

\* the bytes the codec maps to a character
Decodable(b, encoding) ==
    CASE encoding = "latin-1" -> b \in 0..255
      [] encoding = "ascii" -> b \in 0..127
      [] OTHER -> FALSE

\* bytes.decode(encoding, errors): None stands for UnicodeDecodeError
RECURSIVE Decode(_, _, _)
Decode(bs, encoding, errors) ==
    IF bs = <<>> THEN Some(<<>>)
    ELSE LET rest == Decode(Tail(bs), encoding, errors)
             b == Head(bs)
         IN IF rest = None THEN None
            ELSE IF Decodable(b, encoding) THEN Some(<<b>> \o rest.some)
            ELSE IF errors = "backslashreplace"
                 THEN Some(<<Backslash, LowerX, HexDigit(b \div 16), HexDigit(b % 16)>> \o rest.some)
            ELSE None

maybe_to_str_ascii(strlike) == Decode(strlike, "ascii", "backslashreplace")

\* maybe_to_str(strlike, encoding="latin-1", errors="backslashreplace")
maybe_to_str(strlike) == Decode(strlike, "latin-1", "backslashreplace")

\* str.isspace for the characters below 256
IsSpace(c) == c \in {9, 10, 11, 12, 13, 28, 29, 30, 31, 32, 133, 160}

RECURSIVE LStrip(_)
LStrip(t) == IF t # <<>> /\ IsSpace(Head(t)) THEN LStrip(Tail(t)) ELSE t

RECURSIVE RStrip(_)
RStrip(t) ==
    IF t # <<>> /\ IsSpace(t[Len(t)]) THEN RStrip(SubSeq(t, 1, Len(t) - 1)) ELSE t

\* str.strip()
Strip(t) == RStrip(LStrip(t))

StripPerOptionInverted(output, nostrip) == IF nostrip THEN Strip(output) ELSE output

\* if not nostrip: output = output.strip()
StripPerOption(output, nostrip) == IF ~nostrip THEN Strip(output) ELSE output

\* str.split(): the maximal runs of characters that are not whitespace
RECURSIVE Split(_)
Split(t) ==
    LET u == LStrip(t)
        n == IF \E k \in 1..Len(u) : IsSpace(u[k])
             THEN (CHOOSE k \in 1..Len(u) : IsSpace(u[k]) /\ \A j \in 1..(k - 1) : ~IsSpace(u[j])) - 1
             ELSE Len(u)
    IN IF u = <<>> THEN <<>>
       ELSE <<SubSeq(u, 1, n)>> \o Split(SubSeq(u, n + 1, Len(u)))

IsDigit(c) == c \in 48..57

RECURSIVE DigitsValue(_)
DigitsValue(t) ==
    IF t = <<>> THEN 0 ELSE 10 * DigitsValue(SubSeq(t, 1, Len(t) - 1)) + (t[Len(t)] - 48)

\* int(str): surrounding whitespace and one sign are accepted; None stands
\* for ValueError
ParseInt(t) ==
    LET u == Strip(t)
        signed == u # <<>> /\ u[1] \in {43, 45}
        digits == IF signed THEN Tail(u) ELSE u
    IN IF digits = <<>> \/ \E k \in 1..Len(digits) : ~IsDigit(digits[k]) THEN None
       ELSE Some(IF signed /\ u[1] = 45 THEN 0 - DigitsValue(digits) ELSE DigitsValue(digits))

----------------------------------------------------------------------------
(* Dictionaries *)

Pop(d, k, default) == IF k \in DOMAIN d THEN d[k] ELSE default
Without(d, k) == [x \in DOMAIN d \ {k} |-> d[x]]
With(d, k, v) == [x \in DOMAIN d \cup {k} |-> IF x = k THEN v ELSE d[x]]

CLocale == <<67>>               \* "C"
German == <<100, 101>>          \* "de"
HomeDir == <<47>>               \* "/"
LocaleKeys == {"LC_ALL", "LANG"}

\* dict(base, LC_ALL='C', LANG='C'): a new dictionary
LocaleDict(base) ==
    [k \in DOMAIN base \cup LocaleKeys |-> IF k \in LocaleKeys THEN CLocale ELSE base[k]]

\* a slip that updates the base dictionary itself and hands it to the child
ForceLocaleInPlace(sp, hp) ==
    IF Pop(sp, "clocale", TRUE)
    THEN LET base == Pop(sp, "env", "os.environ")
         IN [sp_kwargs |-> With(Without(sp, "clocale"), "env", base),
             heap |-> With(hp, base, LocaleDict(hp[base]))]
    ELSE [sp_kwargs |-> Without(sp, "clocale"), heap |-> hp]

\* if sp_kwargs.pop('clocale', True):
\*     sp_kwargs['env'] = dict(sp_kwargs.pop('env', os.environ), LC_ALL='C', LANG='C')
\* Dictionaries are named objects of the heap; the env keyword holds a name.
ForceLocale(sp, hp) ==
    IF Pop(sp, "clocale", TRUE)
    THEN LET base == Pop(sp, "env", "os.environ")
         IN [sp_kwargs |-> With(Without(sp, "clocale"), "env", "child_env"),
             heap |-> With(hp, "child_env", LocaleDict(hp[base]))]
    ELSE [sp_kwargs |-> Without(sp, "clocale"), heap |-> hp]

\* the environment subprocess.Popen gives the child: the env keyword, or the
\* environment of the parent when there is none
EffectiveEnv(sp, hp) == IF "env" \in DOMAIN sp THEN hp[sp["env"]] ELSE hp["os.environ"]

----------------------------------------------------------------------------
(* checked_backtick, backtick, sbacktick, get_screen_columns *)

CommandLine == "cmd"

\* The result of a call: its outcome, the heap afterwards and the locals of
\* checked_backtick (the keywords given to Popen, nostrip, the decoded output).
checked_backtick(kwa, hp, ch) ==
    LET nostrip == Pop(kwa, "nostrip", FALSE)
        sp1 == With(Without(kwa, "nostrip"), "stdout", PIPE)
        sp2 == IF Pop(sp1, "err2out", FALSE)
               THEN With(Without(sp1, "err2out"), "stderr", "STDOUT")
               ELSE Without(sp1, "err2out")
        loc == ForceLocale(sp2, hp)
        decoded == maybe_to_str(ch.out)
        locals == [sp_kwargs |-> loc.sp_kwargs, nostrip |-> nostrip, output |-> None]
    IN IF ~ch.runs
       THEN [outcome |-> Raise("OSError"), heap |-> loc.heap, frame |-> Some(locals)]
       ELSE IF decoded = None
       THEN [outcome |-> Raise("UnicodeDecodeError"), heap |-> loc.heap, frame |-> Some(locals)]
       ELSE LET output == StripPerOption(decoded.some, nostrip)
            IN [outcome |-> IF ch.status # 0
                            THEN CalledProcessError(<<<<CommandLine>>, kwa>>, ch.status, Some(output))
                            ELSE Return(Some(output)),
                heap |-> loc.heap,
                frame |-> Some([locals EXCEPT !.output = decoded])]

IsCalledProcessError(o) == o.kind = "raise" /\ o.exc = "CalledProcessError"

backtick_reraises(kwa, hp, ch) == checked_backtick(kwa, hp, ch)

\* try: output = checked_backtick(...) except CalledProcessError as e: output = e.output
backtick(kwa, hp, ch) ==
    LET r == checked_backtick(kwa, hp, ch)
    IN IF IsCalledProcessError(r.outcome)
       THEN [r EXCEPT !.outcome = Return(r.outcome.output)]
       ELSE IF r.outcome.kind = "return" THEN [r EXCEPT !.outcome = Return(r.outcome.value)]
       ELSE r

\* returncode = 0; try: ... except CalledProcessError as e: output = e.output;
\* returncode = e.returncode; return (output, returncode)
sbacktick(kwa, hp, ch) ==
    LET r == checked_backtick(kwa, hp, ch)
    IN IF IsCalledProcessError(r.outcome)
       THEN [r EXCEPT !.outcome = Return(Some(<<r.outcome.output, r.outcome.returncode.some>>))]
       ELSE IF r.outcome.kind = "return"
       THEN [r EXCEPT !.outcome = Return(Some(<<r.outcome.value, 0>>))]
       ELSE r

DefaultColumns == 80
MinColumns == 10
CaughtByColumns == {"TypeError", "OSError"}

\* columns = int(os.environ.get('COLUMNS', backtick("stty size").split()[1])):
\* the default argument is evaluated first, whether or not COLUMNS is set
get_screen_columns(hp, ch) ==
    LET r == backtick(<<>>, hp, ch)
        environ == hp["os.environ"]
        caught(o) == IF o.kind = "raise" /\ o.exc \in CaughtByColumns
                     THEN Return(Some(DefaultColumns)) ELSE o
        fields == Split(r.outcome.value.some)
        text == IF "COLUMNS" \in DOMAIN environ THEN environ["COLUMNS"] ELSE fields[2]
        columns == ParseInt(text)
    IN [r EXCEPT !.outcome =
            IF r.outcome.kind = "raise" THEN caught(r.outcome)
            ELSE IF Len(fields) < 2 THEN caught(Raise("IndexError"))
            ELSE IF columns = None THEN caught(Raise("ValueError"))
            ELSE IF columns.some < MinColumns THEN Return(Some(DefaultColumns))
            ELSE Return(columns)]

----------------------------------------------------------------------------
(* The inputs of the capturing calls *)

EnvKeys == {"LANG", "LC_ALL", "HOME"}
EnvValues(k) == IF k = "HOME" THEN {HomeDir} ELSE {CLocale, German}
EnvDicts == UNION {{f \in [D -> {CLocale, German, HomeDir}] : \A k \in D : f[k] \in EnvValues(k)} :
                   D \in SUBSET EnvKeys}

BaseEnviron == [k \in {"HOME", "LANG"} |-> IF k = "HOME" THEN HomeDir ELSE German]

\* a keyword dictionary from optional values (None: the keyword is not given)
Kwargs(nostrip, clocale, err2out, env) ==
    LET given == [nostrip |-> nostrip, clocale |-> clocale, err2out |-> err2out, env |-> env]
    IN [k \in {x \in DOMAIN given : given[x] # None} |-> given[k].some]

OptBool == {None, Some(TRUE), Some(FALSE)}

\* "24 80\n", "24 5\n", "24\n", "", "24 x\n", "\n"
SttyOutputs == {<<50, 52, 32, 56, 48, 10>>, <<50, 52, 32, 53, 10>>, <<50, 52, 10>>, <<>>,
                <<50, 52, 32, 120, 10>>, <<10>>}
\* COLUMNS: "100", "5", "a", ""
ColumnsValues == {<<49, 48, 48>>, <<53>>, <<97>>, <<>>}

\* outputs and statuses vary, under the strip option
OutputInputs ==
    /\ kwargs \in {Kwargs(n, None, None, None) : n \in OptBool}
    /\ child \in [runs : {TRUE}, out : ByteSeqs, status : ExitStatuses]
                 \cup {[runs |-> FALSE, out |-> <<>>, status |-> 0]}
    /\ heap = [o \in {"os.environ"} |-> BaseEnviron]

\* environments and the locale options vary
LocaleInputs ==
    /\ \E c \in OptBool, e \in {None, Some("env")}, o \in {None, Some(TRUE)} :
          kwargs = Kwargs(None, c, o, e)
    /\ child \in [runs : {TRUE}, out : {<<65, 10>>}, status : {0, 1}]
    /\ \E environ \in EnvDicts :
          IF "env" \in DOMAIN kwargs
          THEN \E env \in EnvDicts :
                  heap = [o \in {"os.environ", "env"} |-> IF o = "env" THEN env ELSE environ]
          ELSE heap = [o \in {"os.environ"} |-> environ]

\* the terminal and COLUMNS vary
ColumnsInputs ==
    /\ kwargs = <<>>
    /\ child \in [runs : {TRUE}, out : SttyOutputs, status : {0, 1}]
                 \cup {[runs |-> FALSE, out |-> <<>>, status |-> 0]}
    /\ \E environ \in {BaseEnviron} \cup {With(BaseEnviron, "COLUMNS", v) : v \in ColumnsValues} :
          heap = [o \in {"os.environ"} |-> environ]

BacktickEntries == {"checked_backtick", "backtick", "sbacktick"}

InitCapture ==
    /\ entry \in BacktickEntries \cup {"get_screen_columns"}
    /\ IF entry = "get_screen_columns" THEN ColumnsInputs ELSE OutputInputs \/ LocaleInputs
    /\ frame = None
    /\ pc = "ready"
    /\ outcome = NoOutcome
    /\ IdlePipeline
    /\ IdleDirs

Finish(r) ==
    /\ outcome' = r.outcome
    /\ heap' = r.heap
    /\ frame' = r.frame
    /\ pc' = "done"
    /\ UNCHANGED <<entry, kwargs, child, pipeState, dirState>>

CallCheckedBacktick ==
    /\ entry = "checked_backtick" /\ pc = "ready"
    /\ Finish(checked_backtick(kwargs, heap, child))

CallBacktick ==
    /\ entry = "backtick" /\ pc = "ready"
    /\ Finish(backtick(kwargs, heap, child))

CallSBacktick ==
    /\ entry = "sbacktick" /\ pc = "ready"
    /\ Finish(sbacktick(kwargs, heap, child))

CallGetScreenColumns ==
    /\ entry = "get_screen_columns" /\ pc = "ready"
    /\ Finish(get_screen_columns(heap, child))

NextCapture ==
    \/ CallCheckedBacktick
    \/ CallBacktick
    \/ CallSBacktick
    \/ CallGetScreenColumns

SpecCapture == InitCapture /\ [][NextCapture]_vars

----------------------------------------------------------------------------
(* Properties of the capturing calls *)

\* the output as decoded, before any stripping
DecodedOutput == frame.some.output.some
NostripSet == "nostrip" \in DOMAIN kwargs /\ kwargs["nostrip"]

\* t is T without its leading and trailing whitespace
IsTrimOf(t, T) ==
    \E a \in 0..Len(T), b \in 0..Len(T) :
        /\ a + Len(t) + b = Len(T)
        /\ t = SubSeq(T, a + 1, Len(T) - b)
        /\ \A k \in 1..a : IsSpace(T[k])
        /\ \A k \in (Len(T) - b + 1)..Len(T) : IsSpace(T[k])
        /\ t # <<>> => ~IsSpace(t[1]) /\ ~IsSpace(t[Len(t)])

\* t is the text T' of the claims: T trimmed, or T itself under nostrip
IsExpectedText(t) == IF NostripSet THEN t = DecodedOutput ELSE IsTrimOf(t, DecodedOutput)

\* C3: checked_backtick returns exactly T' (the captured text, trimmed unless
\* nostrip is set) when the status is 0, and otherwise raises
\* CalledProcessError whose returncode is the status and whose output is T'.
C3_CheckedBacktickOutput ==
    (entry = "checked_backtick" /\ pc = "done" /\ child.runs) =>
        /\ frame # None /\ frame.some.output # None
        /\ child.status = 0 =>
            /\ outcome.kind = "return"
            /\ outcome.value # None
            /\ IsExpectedText(outcome.value.some)
        /\ child.status # 0 =>
            /\ IsCalledProcessError(outcome)
            /\ outcome.returncode = Some(child.status)
            /\ outcome.output # None
            /\ IsExpectedText(outcome.output.some)

\* " A" exits 2 with the default options: the error carries "A"
C3_Witness ==
    /\ entry = "checked_backtick" /\ pc = "done"
    /\ child.runs /\ child.out = <<32, 65>> /\ child.status = 2
    /\ "nostrip" \notin DOMAIN kwargs
    /\ IsCalledProcessError(outcome)
    /\ outcome.output = Some(<<65>>)

\* C4: backtick returns T' whether or not the status is 0, sbacktick returns
\* the pair (T', S) where S is the exit status (0 exactly on success), and
\* neither lets a CalledProcessError reach the caller.
C4_NonRaising ==
    (entry \in {"backtick", "sbacktick"} /\ pc = "done") =>
        /\ ~IsCalledProcessError(outcome)
        /\ child.runs =>
            /\ outcome.kind = "return"
            /\ outcome.value # None
            /\ entry = "backtick" => IsExpectedText(outcome.value.some)
            /\ entry = "sbacktick" =>
                /\ outcome.value.some[1] # None
                /\ IsExpectedText(outcome.value.some[1].some)
                /\ outcome.value.some[2] = child.status

C4_Witness ==
    /\ entry = "sbacktick" /\ pc = "done"
    /\ child.runs /\ child.out = <<65, 10>> /\ child.status = 1
    /\ outcome = Return(Some(<<Some(<<65>>), 1>>))

\* what one capturing call does to the environments
LocaleForcingStep ==
    LET clocale == Pop(kwargs, "clocale", TRUE)
        base == IF "env" \in DOMAIN kwargs THEN heap[kwargs["env"]] ELSE heap["os.environ"]
        sp == frame'.some.sp_kwargs
        childEnv == EffectiveEnv(sp, heap')
    IN /\ heap'["os.environ"] = heap["os.environ"]
       /\ "env" \in DOMAIN kwargs => heap'[kwargs["env"]] = heap[kwargs["env"]]
       /\ kwargs' = kwargs
       /\ clocale =>
            /\ DOMAIN childEnv = DOMAIN base \cup LocaleKeys
            /\ childEnv["LC_ALL"] = CLocale
            /\ childEnv["LANG"] = CLocale
            /\ \A k \in DOMAIN base \ LocaleKeys : childEnv[k] = base[k]
       /\ ~clocale =>
            /\ heap' = heap
            /\ ("env" \in DOMAIN sp) <=> ("env" \in DOMAIN kwargs)
            /\ "env" \in DOMAIN kwargs => sp["env"] = kwargs["env"]
            /\ childEnv = base

\* C7: with clocale enabled (the default) the child's environment is the base
\* environment (the env keyword if given, else the process environment) with
\* LC_ALL and LANG set to "C" and every other variable unchanged, and neither
\* the caller's env nor the process environment is modified; with clocale
\* disabled the env keyword is passed through and no variable is added.
C7_LocaleForcing ==
    [][(entry \in BacktickEntries /\ pc = "ready" /\ pc' = "done") => LocaleForcingStep]_vars

\* the caller's env says LANG=de and nothing about LC_ALL; the child sees
\* both as "C", its HOME is the caller's, and the caller's env is as it was
C7_Witness ==
    /\ entry = "checked_backtick" /\ pc = "done"
    /\ "clocale" \notin DOMAIN kwargs
    /\ "env" \in DOMAIN kwargs
    /\ heap["env"] = [k \in {"HOME", "LANG"} |-> IF k = "HOME" THEN HomeDir ELSE German]
    /\ "LANG" \notin DOMAIN heap["os.environ"]
    /\ frame.some.sp_kwargs["env"] = "child_env"
    /\ heap["child_env"] =
          [k \in {"HOME", "LANG", "LC_ALL"} |-> IF k = "HOME" THEN HomeDir ELSE CLocale]

\* C9: get_screen_columns never raises and always returns an integer; it
\* returns 80 when the width cannot be obtained or parsed, and when it is
\* below 10.
C9_ColumnsNeverRaises ==
    (entry = "get_screen_columns" /\ pc = "done") =>
        /\ outcome.kind = "return"
        /\ outcome.value # None
        /\ outcome.value.some \in Int
        /\ outcome.value.some >= MinColumns
        /\ ~child.runs => outcome.value = Some(DefaultColumns)

\* a byte that is no valid text on its own (not ASCII, not a UTF-8 sequence)
InvalidText(b) == b >= 128
HasEscapeMarker(t) == \E k \in 1..(Len(t) - 1) : t[k] = Backslash /\ t[k + 1] = LowerX

\* C10, as stated: decoding never raises, and captured bytes that are not
\* valid text yield a string with a backslash-escape marker for them.
C10_EscapeMarker ==
    (entry \in BacktickEntries /\ pc = "done" /\ child.runs) =>
        /\ outcome.exc # "UnicodeDecodeError"
        /\ frame.some.output # None
        /\ (\E k \in 1..Len(child.out) : InvalidText(child.out[k])) =>
              HasEscapeMarker(DecodedOutput)

\* C10, amended: decoding never raises, and every byte, valid text or not,
\* becomes the one character with the byte's value as its code point; no
\* escape marker is put in.
C10_DecodeTotal ==
    (entry \in BacktickEntries /\ pc = "done" /\ child.runs) =>
        /\ outcome.exc # "UnicodeDecodeError"
        /\ frame.some.output # None
        /\ Len(DecodedOutput) = Len(child.out)
        /\ \A k \in 1..Len(child.out) : DecodedOutput[k] = child.out[k]

C10_Witness ==
    /\ entry = "checked_backtick" /\ pc = "done"
    /\ child.runs /\ child.out = <<255, 65>>
    /\ "nostrip" \in DOMAIN kwargs /\ kwargs["nostrip"]
    /\ outcome = Return(Some(<<255, 65>>))

----------------------------------------------------------------------------
(* The working directory: pushd, popd and the chdir() context manager *)

MaxDepth == 2       \* deepest nesting of chdir() blocks, and of the directory stack

ExistingDirs == {"/", "/a", "/b"}
Dirs == ExistingDirs \cup {"/missing"}

InitDirs ==
    /\ entry = "none"
    /\ pc = "idle"
    /\ outcome = NoOutcome
    /\ cwd \in ExistingDirs
    /\ dir_stack = <<>>
    /\ scopes = <<>>
    /\ IdlePipeline
    /\ IdleCapture

\* os.chdir(directory) raises OSError when the directory cannot be entered
CanChdir(d) == d \in ExistingDirs

\* with chdir(directory): up to the yield.  olddir = os.getcwd();
\* os.chdir(directory); yield
ChdirEnter ==
    /\ Len(scopes) < MaxDepth
    /\ \E directory \in Dirs :
        IF CanChdir(directory)
        THEN /\ scopes' = Append(scopes, [olddir |-> cwd])
             /\ cwd' = directory
             /\ outcome' = Return(None)
        ELSE /\ outcome' = Raise("OSError")
             /\ UNCHANGED <<cwd, scopes>>
    /\ entry' = "chdir"
    /\ UNCHANGED <<pc, dir_stack, pipeState, captureState>>

\* the block ends normally: the generator resumes after the yield and runs
\* os.chdir(olddir)
ChdirLeave ==
    /\ scopes # <<>>
    /\ cwd' = scopes[Len(scopes)].olddir
    /\ scopes' = SubSeq(scopes, 1, Len(scopes) - 1)
    /\ entry' = "chdir_exit"
    /\ outcome' = Return(None)
    /\ UNCHANGED <<pc, dir_stack, pipeState, captureState>>

\* the block raises: the exception is thrown into the generator at the
\* yield, which is inside no try statement, so the generator ends there and
\* the exception goes on to the caller
ChdirLeaveByException ==
    /\ scopes # <<>>
    /\ scopes' = SubSeq(scopes, 1, Len(scopes) - 1)
    /\ entry' = "chdir_exit"
    /\ outcome' = Raise("Exception")
    /\ UNCHANGED <<pc, cwd, dir_stack, pipeState, captureState>>

\* pushd(new_dir)
Pushd ==
    /\ Len(dir_stack) < MaxDepth
    /\ \E new_dir \in Dirs :
        IF CanChdir(new_dir)
        THEN /\ cwd' = new_dir
             /\ dir_stack' = Append(dir_stack, cwd)
             /\ outcome' = Return(None)
        ELSE /\ outcome' = Raise("OSError")
             /\ UNCHANGED <<cwd, dir_stack>>
    /\ entry' = "pushd"
    /\ UNCHANGED <<pc, scopes, pipeState, captureState>>

\* popd()
Popd ==
    /\ IF dir_stack = <<>>
       THEN /\ outcome' = Raise("IndexError")
            /\ UNCHANGED <<cwd, dir_stack>>
       ELSE /\ cwd' = dir_stack[Len(dir_stack)]
            /\ dir_stack' = SubSeq(dir_stack, 1, Len(dir_stack) - 1)
            /\ outcome' = Return(None)
    /\ entry' = "popd"
    /\ UNCHANGED <<pc, scopes, pipeState, captureState>>

NextDirs ==
    \/ ChdirEnter
    \/ ChdirLeave
    \/ ChdirLeaveByException
    \/ Pushd
    \/ Popd

SpecDirs == InitDirs /\ [][NextDirs]_vars

\* a chdir() block is left in this step
LeavesBlock == Len(scopes') < Len(scopes)

\* C8: whenever a chdir() block is left, normally or by an exception, the
\* working directory afterwards is the one recorded when it was entered.
C8_ChdirRestores ==
    [][LeavesBlock => cwd' = scopes[Len(scopes)].olddir]_vars

\* what does hold: a block that ends normally restores the directory
C8_RestoresOnNormalExit ==
    [][(LeavesBlock /\ outcome'.kind = "return") => cwd' = scopes[Len(scopes)].olddir]_vars

====
